---- MODULE Spec2Model ----
(***************************************************************************)
(* Model of go-tcmu's Device life cycle (device.go): OpenTCMUDevice with   *)
(* its recovery and full-creation branches, Close/teardown with the        *)
(* removal workers, the UIO scan, and the creation of the device node.     *)
(*                                                                         *)
(* One Device is modelled.  The main thread runs OpenTCMUDevice and then,  *)
(* when a Device was handed to it, up to MaxCloses calls of Close.  The    *)
(* removal workers (removeAsync) and the poll worker (beginPoll) run       *)
(* concurrently with it.                                                   *)
(***************************************************************************)
EXTENDS Integers, Sequences, FiniteSets, TLC

\* ---------------------------------------------------------------- bounds
MaxCloses == 2      \* Close calls the caller makes after OpenTCMUDevice
MaxItems == 1       \* items the poll worker publishes on cmdChan
MaxUio == 2         \* entries of devfs the scan visits

\* ------------------------------------------------------ program constants
GlobAttempts == 30      \* createDevEntry: for i := 0; i < 30; i++

VARIABLES
    pc,         \* position of the main thread
    api,        \* top-level call in progress or last returned: "none", "open", "close"
    branch,     \* branch OpenTCMUDevice took: "none", "recovery", "create"
    ret,        \* what the last top-level call returned: [dev, err]
    handed,     \* the caller holds a non-nil *Device
    closes,     \* number of Close calls made by the caller
    devNode,    \* state of dev_path/volume_name: "absent", "present", "inaccessible"
    sys,        \* which of the five configfs paths exist
    attrib,     \* core/user_<hba>/<volume>/attrib: [dir, block_dev, reset_ring]
    d,          \* the Device: [uiof, pollDone, pollers, chans]
    tdIdx,      \* teardown: index into pathsToRemove (6: the device node)
    workers,    \* removal workers, in the order they were spawned
    poll,       \* number of poll workers running
    produced,   \* items published on cmdChan so far
    opened,     \* UIO character devices opened by the scan
    glob,       \* createDevEntry: [i, n]: attempts made, matches of the last Glob
    log,        \* operations of the current top-level call, in order
    fs0,        \* the file system when the current top-level call began
    mknodCall   \* the call of mknod: [called, w, major, minor, dev]

vars == <<pc, api, branch, ret, handed, closes, devNode, sys, attrib, d, tdIdx,
          workers, poll, produced, opened, glob, log, fs0, mknodCall>>

\* ----------------------------------------------------------- paths
\* "link": loopback/<wwn>/tpgt_1/lun/lun_<N>/<volume>, "lun": .../lun/lun_<N>,
\* "tpgt": loopback/<wwn>/tpgt_1, "wwn": loopback/<wwn>,
\* "vol": core/user_<hba>/<volume>
SysPaths == {"link", "lun", "tpgt", "wwn", "vol"}

pathsToRemove_swapped == <<"lun", "link", "tpgt", "wwn", "vol">>
pathsToRemove == <<"link", "lun", "tpgt", "wwn", "vol">>

\* the directory entry directly below p that keeps os.Remove(p) from succeeding
ChildOf(p) ==
    CASE p = "lun" -> "link"
      [] p = "tpgt" -> "lun"
      [] p = "wwn" -> "tpgt"
      [] OTHER -> "none"

NoErr == "nil"

\* ------------------------------------------------------- file system
SysStates ==
    {s \in [SysPaths -> BOOLEAN] :
        /\ s["link"] => s["lun"]
        /\ s["lun"] => s["tpgt"]
        /\ s["tpgt"] => s["wwn"]}

AttribStates ==
    {a \in [dir : {"absent", "file", "dir"}, block_dev : BOOLEAN, reset_ring : BOOLEAN] :
        a.dir /= "dir" => (~a.block_dev /\ ~a.reset_ring)}

NoAttrib == [dir |-> "absent", block_dev |-> FALSE, reset_ring |-> FALSE]

DirState(exists) == IF exists THEN "dir" ELSE "absent"

\* ------------------------------------------------------------ Device
NewDevice == [uiof |-> FALSE, pollDone |-> "open", pollers |-> 0, chans |-> FALSE]

\* ------------------------------------------------------------- recovery
recoverySupported_blockDevOnly(a) ==
    IF a.dir = "absent" THEN FALSE
    ELSE IF a.dir /= "dir" THEN FALSE
    ELSE IF ~a.block_dev THEN FALSE
    ELSE TRUE

recoverySupported_unchecked(a) == TRUE

recoverySupported(a) ==
    IF a.dir = "absent" THEN FALSE
    ELSE IF a.dir /= "dir" THEN FALSE
    ELSE IF ~a.block_dev THEN FALSE
    ELSE IF ~a.reset_ring THEN FALSE
    ELSE TRUE

\* ------------------------------------------------------------ writeLines
writeLines_continue(dir, mk, file, lines, failAt) ==
    IF dir = "absent" /\ ~mk
    THEN [err |-> TRUE, made |-> FALSE, evs |-> << <<"mkdirall", file, "fail">> >>]
    ELSE IF dir = "file"
    THEN [err |-> TRUE, made |-> FALSE, evs |-> << >>]
    ELSE [err |-> failAt /= 0,
          made |-> dir = "absent",
          evs |-> (IF dir = "absent" THEN << <<"mkdirall", file, "ok">> >> ELSE << >>)
                  \o [i \in 1..Len(lines) |->
                        <<"write", file, lines[i], IF i = failAt THEN "fail" ELSE "ok">>]]

\* dir: state of path.Dir(target); mk: MkdirAll succeeds; failAt: index of the
\* line whose WriteFile fails (0: none).  Result: the error, whether the
\* directory was made, and the operations performed.
writeLines(dir, mk, file, lines, failAt) ==
    IF dir = "absent" /\ ~mk
    THEN [err |-> TRUE, made |-> FALSE, evs |-> << <<"mkdirall", file, "fail">> >>]
    ELSE IF dir = "file"
    THEN [err |-> TRUE, made |-> FALSE, evs |-> << >>]
    ELSE [err |-> failAt /= 0,
          made |-> dir = "absent",
          evs |-> (IF dir = "absent" THEN << <<"mkdirall", file, "ok">> >> ELSE << >>)
                  \o [i \in 1..(IF failAt = 0 THEN Len(lines) ELSE failAt) |->
                        <<"write", file, lines[i], IF i = failAt THEN "fail" ELSE "ok">>]]

controlLines_asyncFirst ==
    <<"async=1", "dev_size", "dev_config", "hw_block_size", "hw_max_sectors",
      "max_data_area_mb=2048">>

controlLines ==
    <<"dev_size", "dev_config", "hw_block_size", "hw_max_sectors",
      "max_data_area_mb=2048", "async=1">>

enableLines == <<"1">>
nexusLines == <<"nexus_id">>
blockLines == <<"1">>
resetRingLines == <<"1">>
unblockLines_one == <<"1">>
unblockLines == <<"0">>

\* ------------------------------------------------------------- returns
Return(dev, err) ==
    /\ pc' = "returned"
    /\ ret' = [dev |-> dev, err |-> err]
    /\ handed' = (handed \/ dev)

Panic ==
    /\ pc' = "panicked"
    /\ UNCHANGED <<ret, handed>>

Goto(l) ==
    /\ pc' = l
    /\ UNCHANGED <<ret, handed>>

Emit(evs) == log' = log \o evs

\* ---------------------------------------------------------------- mknod
\* Go's int is 32 or 64 bits wide, by platform
IntWidths == {32, 64}

\* an int is the set of the positions of the 1 bits of its two's-complement
\* pattern; Bits(n) is the pattern of n, for 0 <= n < 2^31
Bits(n) == {k \in 0..30 : (n \div 2^k) % 2 = 1}

\* a & b, a | b, a << n on ints of w bits
And(a, b) == a \cap b

Or(a, b) == a \cup b

Shl(w, a, n) == {k + n : k \in a} \cap 0..(w - 1)

\* a device number that shifts the high part of minor by 8
mknodDev_shift8(w, major, minor) ==
    Or(Or(Shl(w, Bits(major), 8), And(Bits(minor), Bits(255))),
       Shl(w, And(Bits(minor), Bits(1048320)), 8))

\* dev := int((major << 8) | (minor & 0xff) | ((minor & 0xfff00) << 12))
mknodDev(w, major, minor) ==
    Or(Or(Shl(w, Bits(major), 8), And(Bits(minor), Bits(255))),
       Shl(w, And(Bits(minor), Bits(1048320)), 12))

\* no call of mknod yet
NoMknod == [called |-> FALSE, w |-> 64, major |-> 0, minor |-> 0, dev |-> {}]

\* mknod(device, major, minor): the device number handed to syscall.Mknod
mknod(w, major, minor) ==
    mknodCall' = [called |-> TRUE, w |-> w, major |-> major, minor |-> minor,
                  dev |-> mknodDev(w, major, minor)]

\* ---------------------------------------------------------------- Init
Init ==
    /\ pc = "idle"
    /\ api = "none"
    /\ branch = "none"
    /\ ret = [dev |-> FALSE, err |-> NoErr]
    /\ handed = FALSE
    /\ closes = 0
    /\ devNode \in {"absent", "present", "inaccessible"}
    /\ sys \in SysStates
    /\ attrib \in AttribStates
    /\ (attrib.dir /= "absent" => sys["vol"])
    /\ d = NewDevice
    /\ tdIdx = 0
    /\ workers = << >>
    /\ poll = 0
    /\ produced = 0
    /\ opened = 0
    /\ glob = [i |-> 0, n |-> 0]
    /\ log = << >>
    /\ fs0 = [sys |-> sys, attrib |-> attrib, devNode |-> devNode]
    /\ mknodCall = NoMknod

\* ------------------------------------------------------ OpenTCMUDevice
\* Lstat of dev_path/volume_name and the choice of the branch
OpenTCMUDevice ==
    /\ pc = "idle"
    /\ api' = "open"
    /\ d' = NewDevice
    /\ log' = << >>
    /\ fs0' = [sys |-> sys, attrib |-> attrib, devNode |-> devNode]
    /\ IF devNode = "inaccessible"
       THEN /\ Return(FALSE, "lstat")
            /\ UNCHANGED <<branch, tdIdx>>
       ELSE IF devNode = "present"
       THEN /\ Goto("cleanup")
            /\ branch' = "recovery"
            /\ UNCHANGED tdIdx
       ELSE /\ Goto("teardown")
            /\ branch' = "create"
            /\ tdIdx' = 1
    /\ UNCHANGED <<closes, devNode, sys, attrib, workers, poll, produced, opened,
                   glob, mknodCall>>

\* d.cleanup(): the recoverySupported test
cleanup ==
    /\ pc = "cleanup"
    /\ IF ~recoverySupported(attrib)
       THEN Return(FALSE, "recovery unsupported")
       ELSE Goto("block")
    /\ UNCHANGED <<api, branch, closes, devNode, sys, attrib, d, tdIdx, workers,
                   poll, produced, opened, glob, log, fs0, mknodCall>>

\* a write of one of the attrib files by block, resetRing or unblock
AttribWrite(at, file, lines, next) ==
    /\ pc = at
    /\ \E mk \in BOOLEAN, failAt \in 0..Len(lines) :
        LET w == writeLines(attrib.dir, mk, file, lines, failAt) IN
        /\ Emit(w.evs)
        /\ attrib' = [attrib EXCEPT !.dir = IF w.made THEN "dir" ELSE @]
        /\ IF w.err THEN Return(FALSE, file) ELSE Goto(next)
    /\ UNCHANGED <<api, branch, closes, devNode, sys, d, tdIdx, workers,
                   poll, produced, opened, glob, fs0, mknodCall>>

block == AttribWrite("block", "block_dev", blockLines, "resetRing")

resetRing == AttribWrite("resetRing", "reset_ring", resetRingLines, "unblock")

unblock == AttribWrite("unblock", "block_dev", unblockLines, "start")

\* ------------------------------------------------------------- teardown
CurPath_nodeFirst ==
    IF tdIdx = 1 THEN "dev"
    ELSE IF tdIdx <= Len(pathsToRemove) THEN pathsToRemove[tdIdx] ELSE "dev"

\* the path the teardown loop is at: the five configfs paths, then the node
CurPath == IF tdIdx <= Len(pathsToRemove) THEN pathsToRemove[tdIdx] ELSE "dev"

Exists(p) == IF p = "dev" THEN devNode = "present" ELSE sys[p]

\* os.Remove of a directory that still has an entry fails
HasChild(p) == IF ChildOf(p) = "none" THEN FALSE ELSE sys[ChildOf(p)]

\* remove(p): spawn removeAsync and wait in the select
teardown ==
    /\ pc = "teardown"
    /\ tdIdx <= Len(pathsToRemove)
    /\ workers' = Append(workers, [path |-> CurPath, pc |-> "remove", sends |-> 0])
    /\ Emit(<< <<"rm", CurPath>> >>)
    /\ Goto("select")
    /\ UNCHANGED <<api, branch, closes, devNode, sys, attrib, d, tdIdx,
                   poll, produced, opened, glob, fs0, mknodCall>>

\* after the loop: os.Stat(dev), and remove(dev) when the node is still there
teardown_dev ==
    /\ pc = "teardown"
    /\ tdIdx = Len(pathsToRemove) + 1
    /\ IF devNode = "present"
       THEN /\ workers' = Append(workers, [path |-> "dev", pc |-> "remove", sends |-> 0])
            /\ Emit(<< <<"rm", "dev">> >>)
            /\ Goto("select")
       ELSE /\ Goto("Close")
            /\ UNCHANGED <<workers, log>>
    /\ UNCHANGED <<api, branch, closes, devNode, sys, attrib, d, tdIdx,
                   poll, produced, opened, glob, fs0, mknodCall>>

notFoundPc_error == "send_err"

\* removeAsync, err != nil && !os.IsNotExist(err): where the worker goes when
\* os.Remove reports that the path does not exist
notFoundPc == "send_nil"

\* removeAsync: os.Remove(path).  A missing path is no error.
removeAsync(w) ==
    /\ workers[w].pc = "remove"
    /\ LET p == workers[w].path IN
       \/ /\ Exists(p)
          /\ ~HasChild(p)
          /\ workers' = [workers EXCEPT ![w].pc = "send_nil"]
          /\ IF p = "dev"
             THEN devNode' = "absent" /\ UNCHANGED <<sys, attrib>>
             ELSE /\ sys' = [sys EXCEPT ![p] = FALSE]
                  /\ attrib' = IF p = "vol" THEN NoAttrib ELSE attrib
                  /\ UNCHANGED devNode
       \/ /\ Exists(p) \/ (p = "dev" /\ devNode = "inaccessible")
          /\ workers' = [workers EXCEPT ![w].pc = "send_err"]
          /\ UNCHANGED <<devNode, sys, attrib>>
       \/ /\ ~Exists(p)
          /\ ~(p = "dev" /\ devNode = "inaccessible")
          /\ workers' = [workers EXCEPT ![w].pc = notFoundPc]
          /\ UNCHANGED <<devNode, sys, attrib>>
    /\ UNCHANGED <<pc, api, branch, ret, handed, closes, d, tdIdx,
                   poll, produced, opened, glob, log, fs0, mknodCall>>

teardownFails_continue(err) ==
    IF tdIdx < Len(pathsToRemove)
    THEN Goto("teardown") /\ tdIdx' = tdIdx + 1
    ELSE Return(FALSE, err) /\ UNCHANGED tdIdx

\* teardown's return with err, and Close's return of it
teardownFails(err) ==
    /\ Return(FALSE, err)
    /\ UNCHANGED tdIdx

\* select, case err := <-done: the worker's send meets the receive
select_done ==
    /\ pc = "select"
    /\ LET w == Len(workers) IN
       \/ /\ workers[w].pc = "send_err"
          /\ workers' = [workers EXCEPT ![w].pc = "send_nil", ![w].sends = @ + 1]
          /\ Emit(<< <<"rm_done", CurPath, "err">> >>)
          /\ teardownFails("remove")
       \/ /\ workers[w].pc = "send_nil"
          /\ workers' = [workers EXCEPT ![w].pc = "done", ![w].sends = @ + 1]
          /\ Emit(<< <<"rm_done", CurPath, "nil">> >>)
          /\ IF tdIdx <= Len(pathsToRemove)
             THEN Goto("teardown") /\ tdIdx' = tdIdx + 1
             ELSE Goto("Close") /\ UNCHANGED tdIdx
    /\ UNCHANGED <<api, branch, closes, devNode, sys, attrib, d,
                   poll, produced, opened, glob, fs0, mknodCall>>

select_timeout_swallowed ==
    /\ pc = "select"
    /\ Emit(<< <<"rm_done", CurPath, "timeout">> >>)
    /\ IF tdIdx <= Len(pathsToRemove)
       THEN Goto("teardown") /\ tdIdx' = tdIdx + 1
       ELSE Goto("Close") /\ UNCHANGED tdIdx
    /\ UNCHANGED <<api, branch, closes, devNode, sys, attrib, d, workers,
                   poll, produced, opened, glob, fs0, mknodCall>>

\* select, case <-time.After(30 * time.Second)
select_timeout ==
    /\ pc = "select"
    /\ Emit(<< <<"rm_done", CurPath, "timeout">> >>)
    /\ teardownFails("timeout")
    /\ UNCHANGED <<api, branch, closes, devNode, sys, attrib, d, workers,
                   poll, produced, opened, glob, fs0, mknodCall>>

\* ---------------------------------------------------------------- Close
\* Close's return of nil: to the caller, or into OpenTCMUDevice
CloseReturnsNil ==
    IF api = "open" THEN Goto("preEnableTcmu") ELSE Return(FALSE, NoErr)

\* after teardown returned nil: if d.uiof != nil { close(d.pollDone)
Close ==
    /\ pc = "Close"
    /\ IF ~d.uiof
       THEN CloseReturnsNil /\ UNCHANGED <<d, log>>
       ELSE IF d.pollDone = "closed"
       THEN Panic /\ UNCHANGED <<d, log>>
       ELSE /\ d' = [d EXCEPT !.pollDone = "closed"]
            /\ Emit(<< <<"signal">> >>)
            /\ Goto("Wait")
    /\ UNCHANGED <<api, branch, closes, devNode, sys, attrib, tdIdx, workers,
                   poll, produced, opened, glob, fs0, mknodCall>>

\* d.pollers.Wait(); d.uiof.Close(); return nil
Close_Wait ==
    /\ pc = "Wait"
    /\ d.pollers = 0
    /\ Emit(<< <<"join">>, <<"closeuio">> >>)
    /\ CloseReturnsNil
    /\ UNCHANGED <<api, branch, closes, devNode, sys, attrib, d, tdIdx, workers,
                   poll, produced, opened, glob, fs0, mknodCall>>

\* the caller closes the Device it was handed
CallClose ==
    /\ pc = "returned"
    /\ handed
    /\ closes < MaxCloses
    /\ closes' = closes + 1
    /\ api' = "close"
    /\ log' = << >>
    /\ fs0' = [sys |-> sys, attrib |-> attrib, devNode |-> devNode]
    /\ tdIdx' = 1
    /\ mknodCall' = NoMknod
    /\ Goto("teardown")
    /\ UNCHANGED <<branch, devNode, sys, attrib, d, workers,
                   poll, produced, opened, glob>>

\* -------------------------------------------------------- preEnableTcmu
\* writeLines(<vol>/control, ...)
preEnableTcmu ==
    /\ pc = "preEnableTcmu"
    /\ \E mk \in BOOLEAN, failAt \in 0..Len(controlLines) :
        LET w == writeLines(DirState(sys["vol"]), mk, "control", controlLines, failAt) IN
        /\ Emit(w.evs)
        /\ sys' = [sys EXCEPT !["vol"] = @ \/ w.made]
        /\ IF w.err THEN Return(FALSE, "control") ELSE Goto("enable")
    /\ UNCHANGED <<api, branch, closes, devNode, attrib, d, tdIdx, workers,
                   poll, produced, opened, glob, fs0, mknodCall>>

\* writeLines(<vol>/enable, "1")
preEnableTcmu_enable ==
    /\ pc = "enable"
    /\ \E mk \in BOOLEAN, failAt \in 0..Len(enableLines) :
        LET w == writeLines(DirState(sys["vol"]), mk, "enable", enableLines, failAt) IN
        /\ Emit(w.evs)
        /\ sys' = [sys EXCEPT !["vol"] = @ \/ w.made]
        /\ IF w.err THEN Return(FALSE, "enable") ELSE Goto("start")
    /\ UNCHANGED <<api, branch, closes, devNode, attrib, d, tdIdx, workers,
                   poll, produced, opened, glob, fs0, mknodCall>>

\* ---------------------------------------------------------- findDevice
\* What the scan meets in devfs, in the order filepath.Walk visits it:
\*   "badstat"      Walk hands the callback an error
\*   "dir"          a directory other than devfs itself
\*   "other"        a name that does not start with uio
\*   "uio_noname"   class/uio/<name>/name cannot be read
\*   "uio_plain"    the first field of the name file is not tcm-user
\*   "uio_short"    tcm-user, but fewer than four fields
\*   "uio_foreign"  tcm-user with another dev_config
\*   "uio_ours"     tcm-user with dev_config go-tcmu//<volume>
UioKinds == {"badstat", "dir", "other", "uio_noname", "uio_plain", "uio_short",
             "uio_foreign", "uio_ours"}

OpenOutcomes == {"ok", "open", "size", "parse", "mmap"}

Scans == UNION {[1..n -> UioKinds] : n \in 0..MaxUio}

\* openDevice; oc names the call that fails ("ok": none)
openDevice(oc) ==
    CASE oc = "open" -> [err |-> "open", uiof |-> FALSE, opened |-> 0, attached |-> FALSE]
      [] oc = "size" -> [err |-> "size", uiof |-> FALSE, opened |-> 1, attached |-> FALSE]
      [] oc = "parse" -> [err |-> "parse", uiof |-> FALSE, opened |-> 1, attached |-> FALSE]
      [] oc = "mmap" -> [err |-> "mmap", uiof |-> TRUE, opened |-> 1, attached |-> FALSE]
      [] OTHER -> [err |-> NoErr, uiof |-> TRUE, opened |-> 1, attached |-> TRUE]

NoDevice(err) == [err |-> err, uiof |-> FALSE, opened |-> 0, attached |-> FALSE]

RECURSIVE Walk(_, _)
\* filepath.Walk(devfs, callback): SkipDir from the callback ends the walk of
\* the directory, and Walk then returns nil
Walk(entries, oc) ==
    IF entries = << >> THEN NoDevice(NoErr)
    ELSE LET e == Head(entries) IN
         CASE e = "badstat" -> NoDevice("walk")
           [] e = "uio_noname" -> NoDevice("read")
           [] e = "uio_short" -> NoDevice("panic")
           [] e = "uio_ours" -> openDevice(oc)
           [] OTHER -> Walk(Tail(entries), oc)

\* findDevice: Walk's error, which is never SkipDir
findDevice(entries, oc) == Walk(entries, oc)

\* start: err = d.findDevice(); if err != nil { return }
start ==
    /\ pc = "start"
    /\ \E entries \in Scans, oc \in OpenOutcomes :
        LET r == findDevice(entries, oc) IN
        /\ d' = [d EXCEPT !.uiof = r.uiof]
        /\ opened' = opened + r.opened
        /\ Emit(IF r.attached THEN << <<"attach">> >> ELSE << >>)
        /\ IF r.err = "panic" THEN Panic
           ELSE IF r.err /= NoErr THEN Return(FALSE, r.err)
           ELSE Goto("beginPoll")
    /\ UNCHANGED <<api, branch, closes, devNode, sys, attrib, tdIdx, workers,
                   poll, produced, glob, fs0, mknodCall>>

startReturnsNil_fallThrough ==
    IF branch = "recovery"
    THEN Goto("teardown") /\ tdIdx' = 1
    ELSE Goto("postEnableTcmu") /\ UNCHANGED tdIdx

\* OpenTCMUDevice after start returned nil: the recovery branch returns d, nil;
\* the creation branch goes on to postEnableTcmu
startReturnsNil ==
    IF branch = "recovery"
    THEN Return(TRUE, NoErr) /\ UNCHANGED tdIdx
    ELSE Goto("postEnableTcmu") /\ UNCHANGED tdIdx

\* start: the channels, pollers.Add(1), go d.beginPoll(), DevReady
start_beginPoll ==
    /\ pc = "beginPoll"
    /\ d' = [d EXCEPT !.chans = TRUE, !.pollers = @ + 1]
    /\ poll' = poll + 1
    /\ Emit(<< <<"spawn">>, <<"devready">> >>)
    /\ startReturnsNil
    /\ UNCHANGED <<api, branch, closes, devNode, sys, attrib, workers,
                   produced, opened, glob, fs0, mknodCall>>

\* ------------------------------------------------------------ beginPoll
\* the poll worker publishes an item on cmdChan
beginPoll ==
    /\ poll > 0
    /\ produced < MaxItems
    /\ produced' = produced + 1
    /\ UNCHANGED <<pc, api, branch, ret, handed, closes, devNode, sys, attrib, d,
                   tdIdx, workers, poll, opened, glob, log, fs0, mknodCall>>

\* the poll worker sees pollDone closed, leaves and calls pollers.Done()
beginPoll_exit ==
    /\ poll > 0
    /\ d.pollDone = "closed"
    /\ poll' = poll - 1
    /\ d' = [d EXCEPT !.pollers = @ - 1]
    /\ UNCHANGED <<pc, api, branch, ret, handed, closes, devNode, sys, attrib,
                   tdIdx, workers, produced, opened, glob, log, fs0, mknodCall>>

\* ------------------------------------------------------- postEnableTcmu
\* every error of postEnableTcmu leaves OpenTCMUDevice as "return d, err"
\* writeLines(<tpgt_1>/nexus, nexusWnn)
postEnableTcmu ==
    /\ pc = "postEnableTcmu"
    /\ \E mk \in BOOLEAN, failAt \in 0..Len(nexusLines) :
        LET w == writeLines(DirState(sys["tpgt"]), mk, "nexus", nexusLines, failAt) IN
        /\ Emit(w.evs)
        /\ sys' = [sys EXCEPT !["wwn"] = @ \/ w.made, !["tpgt"] = @ \/ w.made]
        /\ IF w.err THEN Return(TRUE, "nexus") ELSE Goto("MkdirAll")
    /\ UNCHANGED <<api, branch, closes, devNode, attrib, d, tdIdx, workers,
                   poll, produced, opened, glob, fs0, mknodCall>>

\* errors of os.MkdirAll(lunPath): none when the directory is there.  EEXIST
\* needs something that is no directory at lunPath, and teardown has removed
\* lunPath before postEnableTcmu runs.
MkdirAllErrs(exists) == IF exists THEN {NoErr} ELSE {NoErr, "EACCES"}

IsExist(err) == err = "EEXIST"

\* os.MkdirAll(lunPath, 0755); err != nil && !os.IsExist(err) is returned
postEnableTcmu_MkdirAll ==
    /\ pc = "MkdirAll"
    /\ \E err \in MkdirAllErrs(sys["lun"]) :
        /\ Emit(<< <<"mkdir", "lun", IF err = NoErr THEN "ok" ELSE "fail">> >>)
        /\ IF err = NoErr
           THEN sys' = [sys EXCEPT !["wwn"] = TRUE, !["tpgt"] = TRUE, !["lun"] = TRUE]
           ELSE UNCHANGED sys
        /\ IF err /= NoErr /\ ~IsExist(err)
           THEN Return(TRUE, "mkdir")
           ELSE Goto("Symlink")
    /\ UNCHANGED <<api, branch, closes, devNode, attrib, d, tdIdx, workers,
                   poll, produced, opened, glob, fs0, mknodCall>>

\* os.Symlink(<vol>, lunPath/<volume>)
postEnableTcmu_Symlink ==
    /\ pc = "Symlink"
    /\ \E ok \in BOOLEAN :
        /\ ok => (sys["lun"] /\ ~sys["link"])
        /\ Emit(<< <<"symlink", "link", IF ok THEN "ok" ELSE "fail">> >>)
        /\ sys' = [sys EXCEPT !["link"] = @ \/ ok]
        /\ IF ok THEN Goto("createDevEntry") ELSE Return(TRUE, "symlink")
    /\ UNCHANGED <<api, branch, closes, devNode, attrib, d, tdIdx, workers,
                   poll, produced, opened, glob, fs0, mknodCall>>

\* ------------------------------------------------------- createDevEntry
\* another process creates dev_path/volume_name after OpenTCMUDevice's Lstat
\* and before the os.Stat of createDevEntry
createDevEntry_conflict ==
    /\ pc = "createDevEntry"
    /\ devNode = "absent"
    /\ devNode' = "present"
    /\ UNCHANGED <<pc, ret, handed, api, branch, closes, sys, attrib, d, tdIdx,
                   workers, poll, produced, opened, glob, log, fs0, mknodCall>>

\* os.Stat(dev): an existing node is an error; then ReadFile(<tpgt_1>/address)
createDevEntry ==
    /\ pc = "createDevEntry"
    /\ IF devNode = "present"
       THEN /\ Emit(<< <<"stat", "dev", "ok">> >>)
            /\ Return(TRUE, "exists") /\ UNCHANGED glob
       ELSE /\ Emit(<< <<"stat", "dev", "err">> >>)
            /\ \E ok \in BOOLEAN :
                 IF ok
                 THEN Goto("Glob") /\ glob' = [i |-> 0, n |-> 0]
                 ELSE Return(TRUE, "address") /\ UNCHANGED glob
    /\ UNCHANGED <<api, branch, closes, devNode, sys, attrib, d, tdIdx, workers,
                   poll, produced, opened, fs0, mknodCall>>

\* one turn of the loop: filepath.Glob, then break or sleep a second
createDevEntry_Glob ==
    /\ pc = "Glob"
    /\ IF glob.i < GlobAttempts
       THEN \E n \in 0..2 :
              /\ glob' = [i |-> IF n > 0 THEN glob.i ELSE glob.i + 1, n |-> n]
              /\ IF n > 0
                 THEN /\ Emit(<< <<"glob", "dev", IF n = 1 THEN "one" ELSE "many">> >>)
                      /\ Goto("mknod")
                 ELSE Goto("Glob") /\ UNCHANGED log
       ELSE /\ Emit(<< <<"glob", "dev", "none">> >>)
            /\ Return(TRUE, "no match") /\ glob' = [i |-> 0, n |-> 0]
    /\ UNCHANGED <<api, branch, closes, devNode, sys, attrib, d, tdIdx, workers,
                   poll, produced, opened, fs0, mknodCall>>

\* a parse that takes any two parts for a pair
WellFormed_lax(f) == f \in {"major:minor", "bad minor"}

\* what is read from matches[0]
DevFiles == {"unreadable", "no colon", "bad major", "bad minor", "major:minor"}

\* the major and minor that strconv.Atoi returns for a well-formed file
DevPairs == {<<8, 16>>, <<259, 1048575>>}

\* strings.Split gives two parts and strconv.Atoi accepts both
WellFormed(f) == f = "major:minor"

\* the checks after the loop, the parse of major:minor, and mknod
createDevEntry_mknod ==
    /\ pc = "mknod"
    /\ glob' = [i |-> 0, n |-> 0]
    /\ IF glob.n = 0
       THEN Return(TRUE, "no match") /\ UNCHANGED <<devNode, log, mknodCall>>
       ELSE IF glob.n > 1
       THEN Return(TRUE, "too many") /\ UNCHANGED <<devNode, log, mknodCall>>
       ELSE \E f \in DevFiles, ok \in BOOLEAN :
              IF ~WellFormed(f)
              THEN /\ Emit(<< <<"read", "dev", f>> >>)
                   /\ Return(TRUE, f) /\ UNCHANGED <<devNode, mknodCall>>
              ELSE /\ ok => devNode = "absent"
                   /\ \E w \in IntWidths, mm \in DevPairs : mknod(w, mm[1], mm[2])
                   /\ Emit(<< <<"read", "dev", f>>,
                              <<"mknod", "dev", IF ok THEN "ok" ELSE "fail">> >>)
                   /\ devNode' = IF ok THEN "present" ELSE devNode
                   /\ Return(TRUE, IF ok THEN NoErr ELSE "mknod")
    /\ UNCHANGED <<api, branch, closes, sys, attrib, d, tdIdx, workers,
                   poll, produced, opened, fs0>>

\* ----------------------------------------------------------------- Next
Next ==
    \/ OpenTCMUDevice
    \/ cleanup
    \/ block
    \/ resetRing
    \/ unblock
    \/ teardown
    \/ teardown_dev
    \/ \E w \in 1..Len(workers) : removeAsync(w)
    \/ select_done
    \/ select_timeout
    \/ Close
    \/ Close_Wait
    \/ CallClose
    \/ preEnableTcmu
    \/ preEnableTcmu_enable
    \/ start
    \/ start_beginPoll
    \/ beginPoll
    \/ beginPoll_exit
    \/ postEnableTcmu
    \/ postEnableTcmu_MkdirAll
    \/ postEnableTcmu_Symlink
    \/ createDevEntry_conflict
    \/ createDevEntry
    \/ createDevEntry_Glob
    \/ createDevEntry_mknod

Spec == Init /\ [][Next]_vars

\* ------------------------------------------------------------ SpecMknod
\* mknod alone, on majors and minors that cover every bit of the two fields,
\* their ends and the first value past each end
Majors == {0, 8, 255, 259, 4095, 4096} \cup {2^k : k \in 0..11}

Minors == {0, 255, 256, 65793, 1048320, 1048575, 1048576} \cup {2^k : k \in 0..19}

InitMknod ==
    /\ pc = "idle"
    /\ api = "none"
    /\ branch = "none"
    /\ ret = [dev |-> FALSE, err |-> NoErr]
    /\ handed = FALSE
    /\ closes = 0
    /\ devNode = "absent"
    /\ sys = [p \in SysPaths |-> FALSE]
    /\ attrib = NoAttrib
    /\ d = NewDevice
    /\ tdIdx = 0
    /\ workers = << >>
    /\ poll = 0
    /\ produced = 0
    /\ opened = 0
    /\ glob = [i |-> 0, n |-> 0]
    /\ log = << >>
    /\ fs0 = [sys |-> sys, attrib |-> attrib, devNode |-> devNode]
    /\ mknodCall \in [called : {FALSE}, w : IntWidths, major : Majors,
                       minor : Minors, dev : {{}}]

\* the call of mknod on the drawn major and minor
mknod_call ==
    /\ ~mknodCall.called
    /\ mknod(mknodCall.w, mknodCall.major, mknodCall.minor)
    /\ UNCHANGED <<pc, api, branch, ret, handed, closes, devNode, sys, attrib, d,
                   tdIdx, workers, poll, produced, opened, glob, log, fs0>>

NextMknod == mknod_call

SpecMknod == InitMknod /\ [][NextMknod]_vars

\* =============================================================== claims
\* operations on the file system among the logged operations
FsOps(l) ==
    SelectSeq(l, LAMBDA e : e[1] \in {"write", "rm", "rm_done", "mkdir", "symlink", "mknod"})

Writes(l) == SelectSeq(l, LAMBDA e : e[1] = "write")

Removals(l) == SelectSeq(l, LAMBDA e : e[1] \in {"rm", "rm_done"})

Has(l, e) == \E i \in 1..Len(l) : l[i] = e

\* operation e is the operation f, whatever its result
SameOp(e, f) ==
    /\ Len(e) = Len(f)
    /\ e[1] = f[1]
    /\ e[2] = f[2]
    /\ (e[1] = "write" => e[3] = f[3])

\* l follows the plan: every operation but the last is the plan's, with the
\* plan's result, and the last is the plan's operation
Follows(l, plan) ==
    /\ Len(l) <= Len(plan)
    /\ \A i \in 1..Len(l) : IF i < Len(l) THEN l[i] = plan[i] ELSE SameOp(l[i], plan[i])

BothAttribs(a) == a.block_dev /\ a.reset_ring

InRecovery == api = "open" /\ branch = "recovery" /\ pc \notin {"idle", "cleanup"}

\* C1: with a node at dev_path/volume_name, OpenTCMUDevice takes the recovery
\* branch (cleanup then start, no removal, no control or enable write) if and
\* only if attrib/block_dev and attrib/reset_ring both exist; otherwise it
\* returns the recovery-unsupported error.
C1_RecoveryIffBothAttribs ==
    /\ (api = "open" /\ pc /= "idle") => (branch = "recovery" <=> fs0.devNode = "present")
    /\ InRecovery =>
        /\ BothAttribs(fs0.attrib) <=> ~(pc = "returned" /\ ret.err = "recovery unsupported")
        /\ BothAttribs(fs0.attrib) =>
              /\ pc \in {"block", "resetRing", "unblock", "start", "beginPoll",
                         "returned", "panicked"}
              /\ Removals(log) = << >>
              /\ \A i \in 1..Len(log) :
                    log[i][1] = "write" => log[i][2] \notin {"control", "enable"}

C1_Witness ==
    /\ InRecovery
    /\ fs0.attrib.block_dev
    /\ ~fs0.attrib.reset_ring
    /\ pc = "returned"
    /\ ret.err = "recovery unsupported"

RecoveryWrites ==
    << <<"write", "block_dev", "1", "ok">>,
       <<"write", "reset_ring", "1", "ok">>,
       <<"write", "block_dev", "0", "ok">> >>

AllWritesOk == \A i \in 1..Len(log) : log[i][Len(log[i])] /= "fail"

\* C2: in a warm recovery whose writes all succeed, the operations on sysfs
\* are exactly "1" to block_dev, "1" to reset_ring, "0" to block_dev, in this
\* order; control and enable are not written and nothing is removed.
C2_WarmRecoveryWrites ==
    InRecovery =>
        /\ BothAttribs(fs0.attrib) => Follows(FsOps(log), RecoveryWrites)
        /\ (/\ BothAttribs(fs0.attrib)
            /\ AllWritesOk
            /\ pc \in {"start", "beginPoll", "returned", "panicked"})
           => FsOps(log) = RecoveryWrites

C2_Witness ==
    /\ InRecovery
    /\ pc = "returned"
    /\ ret = [dev |-> TRUE, err |-> NoErr]
    /\ Has(log, <<"devready">>)
    /\ FsOps(log) = RecoveryWrites

\* C3: when the node exists but block_dev or reset_ring is missing, the call
\* returns the recovery-unsupported error and has changed nothing: no write,
\* no removal, the file system as it was, no poll worker, no DevReady.
C3_UnsupportedChangesNothing ==
    (InRecovery /\ ~BothAttribs(fs0.attrib)) =>
        /\ pc = "returned"
        /\ ret = [dev |-> FALSE, err |-> "recovery unsupported"]
        /\ log = << >>
        /\ [sys |-> sys, attrib |-> attrib, devNode |-> devNode] = fs0
        /\ workers = << >>
        /\ poll = 0
        /\ d = NewDevice
        /\ ~handed

C3_Witness ==
    /\ InRecovery
    /\ fs0.attrib.dir = "dir"
    /\ ~fs0.attrib.block_dev
    /\ fs0.attrib.reset_ring
    /\ fs0.sys["link"]
    /\ pc = "returned"

CreationPlan ==
    << <<"rm", "link">>, <<"rm_done", "link", "nil">>,
       <<"rm", "lun">>, <<"rm_done", "lun", "nil">>,
       <<"rm", "tpgt">>, <<"rm_done", "tpgt", "nil">>,
       <<"rm", "wwn">>, <<"rm_done", "wwn", "nil">>,
       <<"rm", "vol">>, <<"rm_done", "vol", "nil">>,
       <<"write", "control", "dev_size", "ok">>,
       <<"write", "control", "dev_config", "ok">>,
       <<"write", "control", "hw_block_size", "ok">>,
       <<"write", "control", "hw_max_sectors", "ok">>,
       <<"write", "control", "max_data_area_mb=2048", "ok">>,
       <<"write", "control", "async=1", "ok">>,
       <<"write", "enable", "1", "ok">>,
       <<"write", "nexus", "nexus_id", "ok">>,
       <<"mkdir", "lun", "ok">>,
       <<"symlink", "link", "ok">>,
       <<"mknod", "dev", "ok">> >>

\* C4: in a full creation the steps come in this order, each only after the
\* one before it succeeded: the teardown removals, the six control lines
\* dev_size .. async=1, "1" to enable, the nexus id, the LUN directory, the
\* symlink, the device node.
C4_CreationOrder ==
    (api = "open" /\ branch = "create") =>
        /\ Follows(FsOps(log), CreationPlan)
        /\ (pc = "returned" /\ ret.err = NoErr) => FsOps(log) = CreationPlan

C4_Witness ==
    /\ api = "open"
    /\ branch = "create"
    /\ pc = "returned"
    /\ ret = [dev |-> TRUE, err |-> NoErr]
    /\ devNode = "present"
    /\ fs0.sys["link"]
    /\ FsOps(log) = CreationPlan

TeardownPlan ==
    << <<"rm", "link">>, <<"rm_done", "link", "nil">>,
       <<"rm", "lun">>, <<"rm_done", "lun", "nil">>,
       <<"rm", "tpgt">>, <<"rm_done", "tpgt", "nil">>,
       <<"rm", "wwn">>, <<"rm_done", "wwn", "nil">>,
       <<"rm", "vol">>, <<"rm_done", "vol", "nil">>,
       <<"rm", "dev">>, <<"rm_done", "dev", "nil">> >>

\* the removal workers the current call spawned, oldest first
CallWorkers ==
    LET n == Len(SelectSeq(log, LAMBDA e : e[1] = "rm")) IN
    SubSeq(workers, Len(workers) - n + 1, Len(workers))

\* C5: teardown attempts the removals in the order LUN symlink, LUN directory,
\* tpgt_1, WWN directory, core volume directory, and attempts one only after
\* the one before it has finished.
C5_TeardownOrder ==
    /\ Follows(Removals(log), TeardownPlan)
    /\ \A i \in 1..Len(CallWorkers) :
        /\ CallWorkers[i].path = TeardownPlan[2 * i - 1][2]
        /\ i < Len(CallWorkers) => CallWorkers[i].pc = "done"

C5_Witness ==
    /\ api = "close"
    /\ pc = "returned"
    /\ ret.err = NoErr
    /\ \A p \in SysPaths : fs0.sys[p] /\ ~sys[p]
    /\ Len(CallWorkers) >= 5

C7_NodeRemovedLast ==
    \A i \in 1..Len(log) :
        (api = "close" /\ d.uiof /\ log[i] = <<"rm", "dev">>) =>
            \E j \in 1..(i - 1) : log[j] = <<"closeuio">>

\* C7 as amended: in Close the residual device node is removed after the five
\* sysfs removals succeeded and before the poll worker is signalled; nothing
\* is removed once the poll worker has been signalled.
C7_NodeRemovedBeforeStop ==
    \A i \in 1..Len(log) :
        /\ log[i] = <<"rm", "dev">> =>
            /\ \A p \in SysPaths : \E j \in 1..(i - 1) : log[j] = <<"rm_done", p, "nil">>
            /\ \A j \in 1..i : log[j][1] \notin {"signal", "join", "closeuio"}
        /\ log[i] = <<"signal">> =>
            \A j \in i..Len(log) : log[j][1] \notin {"rm", "rm_done"}

C7_Witness ==
    /\ api = "close"
    /\ pc = "returned"
    /\ ret.err = NoErr
    /\ fs0.devNode = "present"
    /\ devNode = "absent"
    /\ Has(log, <<"rm_done", "dev", "nil">>)
    /\ Has(log, <<"closeuio">>)

\* C8: whenever Close returns on a Device whose poll worker was started,
\* pollDone has been signalled and the poll worker has exited, whether or not
\* teardown succeeded and whether or not a UIO handle was recorded.
C8_CloseStopsPollWorker ==
    (api = "close" /\ pc = "returned" /\ d.chans) =>
        (d.pollDone = "closed" /\ poll = 0)

\* C9: when the scan finds no uio entry of family tcm-user with dev_config
\* go-tcmu//<volume>, the open fails: no poll worker is started and DevReady
\* is not invoked.
C9_NoUioFailsOpen ==
    (api = "open" /\ ~d.uiof) =>
        /\ poll = 0
        /\ ~Has(log, <<"devready">>)
        /\ ~(pc = "returned" /\ ret.err = NoErr)

\* C10: whenever OpenTCMUDevice returns an error during full creation, what
\* the call created has been cleaned up: the sysfs paths are removed, no poll
\* worker is left running and no Device is handed to the caller.
C10_FailedCreationCleansUp ==
    (api = "open" /\ branch = "create" /\ pc = "returned" /\ ret.err /= NoErr) =>
        /\ poll = 0
        /\ ~ret.dev
        /\ ret.err \notin {"remove", "timeout"} => \A p \in SysPaths : ~sys[p]

Count(l, e) == Len(SelectSeq(l, LAMBDA x : x = e))

\* C11: in a call of OpenTCMUDevice DevReady is invoked at most once, exactly
\* once when the call succeeds, and never before the UIO device was opened
\* and its region mapped.
C11_DevReadyOnceAfterAttach ==
    api = "open" =>
        /\ Count(log, <<"devready">>) <= 1
        /\ (pc = "returned" /\ ret.err = NoErr) => Count(log, <<"devready">>) = 1
        /\ \A i \in 1..Len(log) :
              log[i] = <<"devready">> => \E j \in 1..(i - 1) : log[j] = <<"attach">>

\* C12: a Device never has more than one poll worker running: start runs at
\* most once for it, on the recovery branch or on the creation branch.
C12_OnePollWorker ==
    /\ poll <= 1
    /\ d.pollers <= 1
    /\ d.pollers = poll
    /\ api = "open" => Count(log, <<"spawn">>) <= 1
    /\ (api = "open" /\ poll = 1) => Has(log, <<"spawn">>)

C12_Witness ==
    /\ api = "close"
    /\ pc = "returned"
    /\ poll = 1
    /\ produced = MaxItems

\* C13: every removal worker sends exactly once on its completion channel and
\* then ends, whether the removal succeeded, failed, or the caller timed out:
\* no worker stays blocked.  A worker that is at a send is blocked unless the
\* caller is in the select of that worker's remove.
C13_WorkerOneShot ==
    \A w \in 1..Len(workers) :
        /\ workers[w].sends <= 1
        /\ workers[w].pc = "done" => workers[w].sends = 1
        /\ workers[w].pc \in {"send_err", "send_nil"} => (pc = "select" /\ w = Len(workers))

TimedOut(l) == \E i \in 1..Len(l) : l[i][1] = "rm_done" /\ l[i][3] = "timeout"

\* C14: a removal never blocks its caller for good: in the select the timeout
\* can always fire, and when it fires remove returns the timeout error,
\* teardown returns it and Close returns it to the caller.
C14_TimeoutReturnsError ==
    /\ pc = "select" => ENABLED select_timeout
    /\ TimedOut(log) =>
        /\ pc = "returned"
        /\ ret = [dev |-> FALSE, err |-> "timeout"]
        /\ log[Len(log)][1] = "rm_done"
        /\ log[Len(log)][3] = "timeout"
        /\ \A i \in 1..(Len(log) - 1) : log[i][1] = "rm_done" => log[i][3] = "nil"
        /\ ~Has(log, <<"signal">>)

C14_Witness ==
    /\ api = "close"
    /\ pc = "returned"
    /\ ret.err = "timeout"
    /\ log[Len(log)] = <<"rm_done", "tpgt", "timeout">>
    /\ workers[Len(workers)].pc = "remove"
    /\ sys["tpgt"]

EmptyFs(f) == (\A p \in SysPaths : ~f.sys[p]) /\ f.devNode /= "present"

CurFs == [sys |-> sys, attrib |-> attrib, devNode |-> devNode]

\* the current call is in teardown, or has returned from it
InTeardown ==
    \/ pc \in {"teardown", "select", "Close"}
    \/ api = "close" /\ pc \in {"Wait", "returned", "panicked"}
    \/ pc = "returned" /\ ret.err \in {"remove", "timeout"}

\* C15: teardown is idempotent.  A removal of a path that does not exist is a
\* success: a teardown that starts with none of its five paths and no device
\* node changes nothing, no removal of it reports an error, and unless a
\* removal times out it returns success.  A teardown that returned success
\* has left none of them, so a second run in succession is such a run.
C15_TeardownIdempotent ==
    /\ pc = "Close" => EmptyFs(CurFs)
    /\ (InTeardown /\ EmptyFs(fs0)) =>
        /\ CurFs = fs0
        /\ \A i \in 1..Len(log) : log[i][1] = "rm_done" => log[i][3] /= "err"
        /\ ~Has(log, <<"rm", "dev">>)
        /\ pc = "returned" => ret.err \in {NoErr, "timeout"}
        /\ (pc = "returned" /\ ~TimedOut(log)) =>
              /\ ret.err = NoErr
              /\ \A p \in SysPaths : Has(log, <<"rm_done", p, "nil">>)

\* a second Close whose teardown ran to its end, after a first Close that
\* removed the whole tree
C15_Witness ==
    /\ api = "close"
    /\ closes = 2
    /\ EmptyFs(fs0)
    /\ pc \in {"Close", "returned"}
    /\ ~TimedOut(log)
    /\ \A p \in SysPaths : Has(log, <<"rm_done", p, "nil">>)
    /\ \E w \in 1..Len(workers) : workers[w].path = "dev"

\* C16: a failed sysfs write is fatal and not retried: the call returns an
\* error, the failed write was attempted once, and no sysfs write follows it.
C16_WriteFailureFatal ==
    \A i \in 1..Len(log) :
        (log[i][1] = "write" /\ log[i][4] = "fail") =>
            /\ i = Len(log)
            /\ pc = "returned"
            /\ ret.err = log[i][2]
            /\ ret.err /= NoErr
            /\ \A j \in 1..(i - 1) :
                  ~(log[j][1] = "write" /\ log[j][2] = log[i][2] /\ log[j][3] = log[i][3])

C16_Witness ==
    /\ api = "open"
    /\ pc = "returned"
    /\ Len(Writes(log)) = 3
    /\ log[Len(log)] = <<"write", "control", "hw_block_size", "fail">>

\* createDevEntry was entered in the current call
InCreateDevEntry ==
    \E r \in {"ok", "err"} : Has(log, <<"stat", "dev", r>>)

\* C17: createDevEntry creates the node only if no node was found by its
\* check, the lookup gave a match within GlobAttempts attempts, the match is
\* unique and its content is a well-formed major:minor pair; in every other
\* case it returns an error and creates no node; the loop makes at most
\* GlobAttempts attempts.
C17_MknodOnlyWhenAllHold ==
    /\ glob.i <= GlobAttempts
    /\ pc = "mknod" => (glob.n > 0 /\ glob.i < GlobAttempts)
    /\ api = "open" =>
        /\ \A i \in 1..Len(log) :
              log[i][1] = "mknod" =>
                  /\ Has(SubSeq(log, 1, i - 1), <<"stat", "dev", "err">>)
                  /\ Has(SubSeq(log, 1, i - 1), <<"glob", "dev", "one">>)
                  /\ i > 1 /\ log[i - 1] = <<"read", "dev", "major:minor">>
        /\ (InCreateDevEntry /\ pc = "returned") =>
              IF Has(log, <<"mknod", "dev", "ok">>)
              THEN ret.err = NoErr /\ devNode = "present"
              ELSE /\ ret.err /= NoErr
                   /\ Has(log, <<"stat", "dev", "ok">>) => devNode = "present"
                   /\ Has(log, <<"stat", "dev", "err">>) => devNode /= "present"

\* a call that created the node
C17_Witness ==
    /\ api = "open"
    /\ pc = "returned"
    /\ ret.err = NoErr
    /\ devNode = "present"
    /\ Has(log, <<"mknod", "dev", "ok">>)

\* C18: recovery never leaves the device frozen: when a recovery has
\* returned and "1" was written to block_dev with success, "0" was written to
\* block_dev after it, also when the write to reset_ring failed.
C18_RecoveryUnblocks ==
    (InRecovery /\ pc \in {"returned", "panicked"}) =>
        \A i \in 1..Len(log) :
            log[i] = <<"write", "block_dev", "1", "ok">> =>
                \E j \in (i + 1)..Len(log) :
                    /\ log[j][1] = "write"
                    /\ log[j][2] = "block_dev"
                    /\ log[j][3] = "0"

\* C19: over any sequence of Close calls on one Device, the one made by
\* OpenTCMUDevice included, pollDone is closed at most once: no Close reaches
\* close(d.pollDone) with the channel already closed, and no call ends in the
\* panic of such a close.
C19_PollDoneClosedOnce ==
    /\ ~(pc = "Close" /\ d.uiof /\ d.pollDone = "closed")
    /\ ~(api = "close" /\ pc = "panicked")

\* a >> n on signed ints of w bits: the sign bit fills the top
Shr(w, a, n) ==
    {k - n : k \in {j \in a : j >= n}}
        \cup (IF (w - 1) \in a THEN (w - n)..(w - 1) ELSE {})

\* major = (dev >> 8) & 0xfff
decodeMajor(w, dev) == And(Shr(w, dev, 8), Bits(4095))

\* minor = (dev & 0xff) | ((dev >> 12) & 0xfff00)
decodeMinor(w, dev) ==
    Or(And(dev, Bits(255)), And(Shr(w, dev, 12), Bits(1048320)))

InRange(major, minor) == major \in 0..4095 /\ minor \in 0..1048575

\* C20: the device number mknod computes round-trips: for major in 0..4095
\* and minor in 0..2^20-1 the decoding gives back major and minor, so two
\* pairs in range with the same device number are the same pair.
C20_MknodRoundTrip ==
    (mknodCall.called /\ InRange(mknodCall.major, mknodCall.minor)) =>
        /\ decodeMajor(mknodCall.w, mknodCall.dev) = Bits(mknodCall.major)
        /\ decodeMinor(mknodCall.w, mknodCall.dev) = Bits(mknodCall.minor)
        /\ \A M \in Majors, m \in Minors :
              (InRange(M, m) /\ mknodDev(mknodCall.w, M, m) = mknodCall.dev) =>
                  (M = mknodCall.major /\ m = mknodCall.minor)

\* the largest pair on a 32-bit int: the device number has its sign bit set
C20_Witness ==
    /\ mknodCall.called
    /\ mknodCall.w = 32
    /\ mknodCall.major = 4095
    /\ mknodCall.minor = 1048575
    /\ 31 \in mknodCall.dev

====
